---- MODULE Spec2Model ----
(***************************************************************************)
(* Model of memaris: the batch planner and result merger                   *)
(* (src/utils/batching.ts), the chunk loop and chunk planner of the API    *)
(* analyzer (src/analyzers/ai-powered-analysis.ts), the self-pollution     *)
(* guard (SessionCleanup in src/utils/batching.ts), the project resolver   *)
(* and its folder-name codec (src/parsers/project-detector.ts), project    *)
(* discovery and the session file parser (ProjectDiscovery and JSONLParser *)
(* in part_005), the collection of a project's whole history              *)
(* (src/cli/index.ts) and the response handling of ClaudeCodeAnalyzer      *)
(* (part_004).                                                             *)
(*                                                                         *)
(* Strings are sequences of one-character strings.  A message is modelled  *)
(* by the length of its extracted text; messages are told apart by their   *)
(* position in the input list.  Every component has its own variables and  *)
(* its own specification; the other components stay idle.                  *)
(***************************************************************************)
EXTENDS Integers, Sequences, FiniteSets, TLC

VARIABLES
    \* ---- processBatches (batching.ts:47-129)
    messages,           \* input list: content length of each message
    batchSize,          \* options.batchSize, the ceiling C
    pc,                 \* position of processBatches
    batchNum,           \* loop counter of the batch loop
    processedMessages,  \* index cursor into messages (0-based count)
    handed,             \* batches passed to analyzeConversation, in call order
    batchResults,       \* results pushed by the loop
    mergedResult,       \* value returned by mergeAnalysisResults
    failedBatches,      \* numbers of the batches whose analysis call threw
    runLog,             \* what the run did, in order: external calls issued
                        \* and completed, guard operations invoked
    \* ---- AIPoweredAnalyzer.analyzeConversation (ai-powered-analysis.ts)
    apiMessages,        \* limitedMessages: content length of each message
    tokensPerChunk,     \* the chunk ceiling
    apiChunks,          \* value of createTokenAwareChunks
    chunkIndex,         \* the loop variable i (0-based)
    apc,                \* position of analyzeConversation
    allResults,         \* numbers of the chunks whose result was pushed
    apiLog,             \* API calls issued and completed, delays, in order
    \* ---- mergeAnalysisResults applied to arbitrary result lists
    results,            \* argument of mergeAnalysisResults
    merged,             \* its return value
    mergedReversed,     \* its return value for the same results, reversed
    mpc,                \* "input" before the call, "merged" after,
                        \* "swapped" after the call on the reversed list
    \* ---- SessionCleanup (batching.ts:193-326) and its project directory
    files,              \* session id -> file record or NoFile
    createdSessions,    \* the tracked set
    now,                \* wall clock
    beforeQueryTime,    \* start time of the latest external call, or NoCall
    inFlight,           \* an external call has been issued and not returned
    pollPending,        \* the 100 ms timer of analyzeSession is armed
    lastOp,             \* last thing the run did: a guard operation, the
                        \* issue of a call ("query") or its return
    examined,           \* files examined by cleanupSession during lastOp
    \* ---- ProjectDetector (project-detector.ts) and the projects root
    store,              \* directory name -> list of session mtimes, or NoDir
    clock,              \* clock stamping session files
    cwd,                \* resolved working directory
    rpc,                \* "setup" before detectCurrentProject, "detected" after
    detected,           \* value returned by detectCurrentProject
    root,               \* the projects root: "ok", "missing" or "unlistable"
    discovered,         \* value returned by discoverProjects
    \* ---- the folder-name codec of ProjectDetector on arbitrary paths
    path,               \* a resolved absolute path
    folder,             \* pathToClaudeFolderName(path)
    decoded,            \* what isExactPathMatch(folder, path) computed
    cpc,                \* "input", "encoded", "matched"
    \* ---- JSONLParser.parseSessionFile (part_005:8-33)
    lines,              \* the lines of the session file
    parsed,             \* value returned by parseSessionFile
    reparsed,           \* value returned by a second parse of the same file
    ppc,                \* "file", "parsed", "reparsed"
    \* ---- the --all collection of the default action (cli/index.ts:240-274)
    projectSessions,    \* project.sessions, as createProjectInfo ordered it
    sessionCursor,      \* sessions of project.sessions already collected
    allHistoryMessages, \* the messages collected so far
    collectBatchSize,   \* options.batchSize
    historyBatches,     \* the batches processBatches forms of them
    kpc,                \* "collecting", "collected", "batched"
    \* ---- the response handling of ClaudeCodeAnalyzer (part_004:279-417)
    responseText,       \* what the text is: "json", "repairable", "garbage"
    parsedResult,       \* value of JSON.parse on the response text
    analysisResult,     \* the AnalysisResult built of it
    npc                 \* "response", "returned", "repaired", "threw"

batchVars == <<messages, batchSize, pc, batchNum, processedMessages, handed,
               batchResults, mergedResult, failedBatches, runLog>>
chunkVars == <<apiMessages, tokensPerChunk, apiChunks, chunkIndex, apc,
               allResults, apiLog>>
mergeVars == <<results, merged, mergedReversed, mpc>>
guardVars == <<files, createdSessions, now, beforeQueryTime, inFlight,
               pollPending,
               lastOp, examined>>
resolveVars == <<store, clock, cwd, rpc, detected, root, discovered>>
codecVars == <<path, folder, decoded, cpc>>
parseVars == <<lines, parsed, reparsed, ppc>>
collectVars == <<projectSessions, sessionCursor, allHistoryMessages,
                 collectBatchSize, historyBatches, kpc>>
responseVars == <<responseText, parsedResult, analysisResult, npc>>
vars == <<batchVars, mergeVars, guardVars, resolveVars, codecVars, parseVars,
          chunkVars, collectVars, responseVars>>
\* what the steps of one component leave alone
notBatch ==
    <<mergeVars, guardVars, resolveVars, codecVars, parseVars, chunkVars,
      collectVars, responseVars>>
notMerge ==
    <<batchVars, guardVars, resolveVars, codecVars, parseVars, chunkVars,
      collectVars, responseVars>>
notGuard ==
    <<batchVars, mergeVars, resolveVars, codecVars, parseVars, chunkVars,
      collectVars, responseVars>>
notResolve ==
    <<batchVars, mergeVars, guardVars, codecVars, parseVars, chunkVars,
      collectVars, responseVars>>
notCodec ==
    <<batchVars, mergeVars, guardVars, resolveVars, parseVars, chunkVars,
      collectVars, responseVars>>
notChunk ==
    <<batchVars, mergeVars, guardVars, resolveVars, codecVars, parseVars,
      collectVars, responseVars>>
notCollect ==
    <<batchVars, mergeVars, guardVars, resolveVars, codecVars, parseVars,
      chunkVars, responseVars>>
notResponse ==
    <<batchVars, mergeVars, guardVars, resolveVars, codecVars, parseVars,
      chunkVars, collectVars>>
notParse ==
    <<batchVars, mergeVars, guardVars, resolveVars, codecVars, chunkVars,
      collectVars, responseVars>>

\* ------------------------------------------------------------------ bounds
MaxLen == 5          \* longest message list
MaxResults == 2      \* longest list of per-batch results given to the merger
MaxList == 2         \* longest list-valued profile field of one result
MaxTime == 1         \* last tick of the guard's clock
MaxDirs == 2         \* directories under the projects root
MaxClock == 3        \* session files written under the projects root
MaxDepth == 2        \* segments of a path given to the codec
MaxSegLen == 3       \* characters of one path segment
MaxLines == 4        \* lines of a session file
MaxApiLen == 3       \* longest message list given to the API analyzer
MaxFiles == 2        \* session files of the project collected from
MaxFileLen == 2      \* messages of one collected session file

Null == "null"

\* ----------------------------------------------------------- small helpers
RECURSIVE SeqSum(_)
SeqSum(s) == IF s = <<>> THEN 0 ELSE Head(s) + SeqSum(Tail(s))

RECURSIVE Flatten(_)
Flatten(ss) == IF ss = <<>> THEN <<>> ELSE Head(ss) \o Flatten(Tail(ss))

CeilDiv(a, b) == (a + b - 1) \div b

SeqsUpTo(S, n) == UNION {[1..k -> S] : k \in 0..n}

\* ============================================================ batching.ts
\* content.length of the messages the model draws from; 40 characters is
\* the 10-token message of the planner scenario
MsgLens == {0, 12, 24, 40}
BatchSizes == {5, 25}

\* estimateTokens: Math.ceil(content.length / 4)
estimateTokens(msg) == CeilDiv(msg, 4)

totalTokens(msgs) == SeqSum([i \in 1..Len(msgs) |-> estimateTokens(msgs[i])])

\* Math.ceil(totalTokens / batchSize)
batchesNeeded(msgs, C) == CeilDiv(totalTokens(msgs), C)

\* the while loop of lines 78-89: from cursor p (messages already consumed)
\* with the batch collected so far, returns the finished batch as a list of
\* message positions
RECURSIVE collectBatch(_, _, _, _, _)
collectBatch(msgs, C, p, batchMessages, batchTokenCount) ==
    IF ~(p < Len(msgs) /\ batchTokenCount < C)
    THEN batchMessages
    ELSE LET msgTokens == estimateTokens(msgs[p + 1])
         IN  IF batchTokenCount + msgTokens > C /\ Len(batchMessages) > 0
             THEN batchMessages
             ELSE collectBatch(msgs, C, p + 1, Append(batchMessages, p + 1),
                               batchTokenCount + msgTokens)


\* ================================================ ai-powered-analysis.ts
\* createTokenAwareChunks: the for loop of lines 189-201 from position i on,
\* then the final push of lines 203-205
RECURSIVE chunkLoop(_, _, _, _, _, _)
chunkLoop(msgs, maxTokens, i, chunks, currentChunk, currentTokens) ==
    IF i > Len(msgs)
    THEN IF Len(currentChunk) > 0 THEN Append(chunks, currentChunk) ELSE chunks
    ELSE LET estimatedTokens == CeilDiv(msgs[i], 4)
             flush == currentTokens + estimatedTokens > maxTokens
                      /\ Len(currentChunk) > 0
         IN  chunkLoop(msgs, maxTokens, i + 1,
                       IF flush THEN Append(chunks, currentChunk) ELSE chunks,
                       Append(IF flush THEN <<>> ELSE currentChunk, i),
                       (IF flush THEN 0 ELSE currentTokens) + estimatedTokens)

createTokenAwareChunks(msgs, maxTokens) ==
    chunkLoop(msgs, maxTokens, 1, <<>>, <<>>, 0)

\* ================================================== mergeAnalysisResults
\* [...new Set(xs)]: first occurrence of every value, in order
RECURSIVE Dedup(_)
Dedup(xs) ==
    IF xs = <<>> THEN <<>>
    ELSE LET init == Dedup(SubSeq(xs, 1, Len(xs) - 1))
             x == xs[Len(xs)]
         IN  IF \E i \in 1..Len(init) : init[i] = x THEN init
             ELSE Append(init, x)

\* (x.lesson || '').length
LessonLength(x) == Len(x.lesson)

\* Array.prototype.sort with (a, b) => len(b.lesson) - len(a.lesson): a
\* stable sort, longest lesson first
RECURSIVE InsertByLesson(_, _)
InsertByLesson(sorted, x) ==
    IF sorted = <<>> THEN <<x>>
    ELSE IF LessonLength(Head(sorted)) >= LessonLength(x)
         THEN <<Head(sorted)>> \o InsertByLesson(Tail(sorted), x)
         ELSE <<x>> \o sorted

RECURSIVE SortByLesson(_)
SortByLesson(xs) ==
    IF xs = <<>> THEN <<>>
    ELSE InsertByLesson(SortByLesson(SubSeq(xs, 1, Len(xs) - 1)), xs[Len(xs)])

\* the merged scalar profile fields are read from results[0] (lines 140-147)
mergedOs(rs) == rs[1].userProfile.environment.os
mergedStyle(rs) ==
    [verbosity |-> rs[1].userProfile.style.verbosity,
     techLevel |-> rs[1].userProfile.style.techLevel,
     patience  |-> rs[1].userProfile.style.patience]

\* variant that keeps the first three mistakes only
concatMistakesCapped(rs) ==
    LET all == Flatten([i \in 1..Len(rs) |-> rs[i].mistakes])
    IN  SubSeq(all, 1, IF Len(all) < 3 THEN Len(all) ELSE 3)
\* the loop of lines 156-168 for one field, then lines 171-182
concatMistakes(rs) == Flatten([i \in 1..Len(rs) |-> rs[i].mistakes])
concatSuccesses(rs) == Flatten([i \in 1..Len(rs) |-> rs[i].successes])
concatRecommendations(rs) ==
    Flatten([i \in 1..Len(rs) |-> rs[i].recommendations])
\* variant that keeps the boundaries of the first result only
concatBoundariesOfFirst(rs) == rs[1].userProfile.boundaries
concatBoundaries(rs) ==
    Flatten([i \in 1..Len(rs) |-> rs[i].userProfile.boundaries])
concatPreferences(rs) ==
    Flatten([i \in 1..Len(rs) |-> rs[i].userProfile.preferences])
concatRestrictions(rs) ==
    Flatten([i \in 1..Len(rs) |-> rs[i].userProfile.environment.restrictions])
concatTools(rs) ==
    Flatten([i \in 1..Len(rs) |-> rs[i].userProfile.environment.tools])

mergeAnalysisResults(rs) ==
    IF Len(rs) = 0 THEN Null
    ELSE IF Len(rs) = 1 THEN rs[1]
    ELSE [mistakes  |-> SortByLesson(concatMistakes(rs)),
          successes |-> SortByLesson(concatSuccesses(rs)),
          userProfile |->
             [environment |->
                 [os |-> mergedOs(rs),
                  restrictions |-> Dedup(concatRestrictions(rs)),
                  tools |-> Dedup(concatTools(rs))],
              style |-> mergedStyle(rs),
              boundaries |-> Dedup(concatBoundaries(rs)),
              preferences |-> Dedup(concatPreferences(rs))],
          recommendations |-> Dedup(concatRecommendations(rs))]

\* ------------------------------------------- per-batch results (inputs)
\* an AnalysisResult as ClaudeCodeAnalyzer.analyzeConversation builds it
MkResult(os, verbosity, techLevel, patience, lst, ms) ==
    [mistakes  |-> ms,
     successes |-> ms,
     userProfile |->
        [environment |-> [os |-> os, restrictions |-> lst, tools |-> lst],
         style |-> [verbosity |-> verbosity, techLevel |-> techLevel,
                    patience |-> patience],
         boundaries |-> lst,
         preferences |-> lst],
     recommendations |-> lst]

\* the result the analyzer returns for batch n of a run: one finding whose
\* lesson names the batch
BatchFinding(n) ==
    MkResult("unknown", "concise", "intermediate", "medium",
             <<>>, <<[lesson |-> [i \in 1..n |-> "x"]]>>)

\* profile values of the per-batch results handed to the merger
ScalarPatterns ==
    { <<"unknown", "unknown", "unknown", "unknown">>,
      <<"linux", "concise", "expert", "low">>,
      <<"macos", "detailed", "beginner", "high">>,
      <<"unknown", "detailed", "unknown", "high">> }
Strings == {"p", "q"}
ListPool == SeqsUpTo(Strings, MaxList)
\* findings with lessons of growing length, one per list entry
FindingsOf(lst) == [i \in 1..Len(lst) |-> [lesson |-> SubSeq(lst, 1, i)]]
ResultPool ==
    { MkResult(sp[1], sp[2], sp[3], sp[4], lst, FindingsOf(lst)) :
        sp \in ScalarPatterns, lst \in ListPool }

\* ======================================================= idle components
BatchIdle ==
    /\ messages = <<>> /\ batchSize = 1 /\ pc = "idle" /\ batchNum = 1
    /\ processedMessages = 0 /\ handed = <<>> /\ batchResults = <<>>
    /\ mergedResult = Null /\ failedBatches = {} /\ runLog = <<>>
MergeIdle ==
    /\ results = <<>> /\ merged = Null /\ mergedReversed = Null
    /\ mpc = "idle"

\* ========================================================= processBatches
BatchInit ==
    /\ messages \in SeqsUpTo(MsgLens, MaxLen)
    /\ batchSize \in BatchSizes
    /\ pc = "loop"
    /\ batchNum = 1
    /\ processedMessages = 0
    /\ handed = <<>>
    /\ batchResults = <<>>
    /\ mergedResult = Null
    /\ failedBatches = {}
    /\ runLog = <<>>

\* the batch the loop body of lines 74-89 collects at the current cursor
nextBatch == collectBatch(messages, batchSize, processedMessages, <<>>, 0)

\* an entry of a log of calls
Event(op, n) == [op |-> op, n |-> n]

\* lines 68-97: the loop body collects the batch and issues the call; the
\* function is suspended at the await of line 97
StartBatch ==
    /\ UNCHANGED notBatch
    /\ pc = "loop"
    /\ batchNum <= batchesNeeded(messages, batchSize)
    /\ handed' = Append(handed, nextBatch)
    /\ processedMessages' = processedMessages + Len(nextBatch)
    /\ runLog' = Append(runLog, Event("call", batchNum))
    /\ pc' = "awaiting"
    /\ UNCHANGED <<messages, batchSize, batchNum, batchResults, mergedResult,
                   failedBatches>>

\* the analyzeConversation call resolves: lines 105-120, then the next
\* iteration
AnalyzeBatchOk ==
    /\ UNCHANGED notBatch
    /\ pc = "awaiting"
    /\ batchResults' = Append(batchResults, BatchFinding(batchNum))
    /\ runLog' = Append(runLog, Event("return", batchNum))
    /\ batchNum' = batchNum + 1
    /\ pc' = "loop"
    /\ UNCHANGED <<messages, batchSize, processedMessages, handed,
                   mergedResult, failedBatches>>

\* variant that catches the rejection and sends the same batch once more
AnalyzeBatchThrowsAndRetries ==
    /\ UNCHANGED notBatch
    /\ pc = "awaiting"
    /\ failedBatches' = failedBatches \cup {batchNum}
    /\ runLog' = Append(runLog, Event("throw", batchNum))
    /\ IF batchNum \in failedBatches
       THEN pc' = "threw" /\ UNCHANGED <<handed, processedMessages>>
       ELSE /\ pc' = "loop"
            /\ handed' = SubSeq(handed, 1, Len(handed) - 1)
            /\ processedMessages' =
                   processedMessages - Len(handed[Len(handed)])
    /\ UNCHANGED <<messages, batchSize, batchNum, batchResults, mergedResult>>
\* the analyzeConversation call rejects (collaborator error or unrecoverable
\* JSON, rethrown by the analyzer): the await of line 97 is not inside a try
\* block, so processBatches rejects
AnalyzeBatchThrows ==
    /\ UNCHANGED notBatch
    /\ pc = "awaiting"
    /\ failedBatches' = failedBatches \cup {batchNum}
    /\ runLog' = Append(runLog, Event("throw", batchNum))
    /\ pc' = "threw"
    /\ UNCHANGED <<messages, batchSize, batchNum, processedMessages, handed,
                   batchResults, mergedResult>>

\* lines 123-128: merge, log mergedResult.mistakes.length, return
MergeBatches ==
    /\ UNCHANGED notBatch
    /\ pc = "loop"
    /\ batchNum > batchesNeeded(messages, batchSize)
    /\ mergedResult' = mergeAnalysisResults(batchResults)
    /\ pc' = IF Len(batchResults) = 0 THEN "threw" ELSE "returned"
    /\ UNCHANGED <<messages, batchSize, batchNum, processedMessages, handed,
                   batchResults, failedBatches, runLog>>

BatchNext ==
    StartBatch \/ AnalyzeBatchOk \/ AnalyzeBatchThrows \/ MergeBatches

\* ===================== AIPoweredAnalyzer.analyzeConversation (lines 104-182)
ChunkIdle ==
    /\ apiMessages = <<>> /\ tokensPerChunk = 1 /\ apiChunks = <<>>
    /\ chunkIndex = 0 /\ apc = "idle" /\ allResults = {} /\ apiLog = <<>>

\* lines 115-125: the chunks are planned before the loop starts
ChunkInit ==
    /\ apiMessages \in SeqsUpTo(MsgLens, MaxApiLen)
    /\ tokensPerChunk \in BatchSizes
    /\ apiChunks = createTokenAwareChunks(apiMessages, tokensPerChunk)
    /\ chunkIndex = 0
    /\ apc = "loop"
    /\ allResults = {}
    /\ apiLog = <<>>

\* lines 128-136: the loop body sends the chunk and is suspended at the await
StartChunk ==
    /\ UNCHANGED notChunk
    /\ apc = "loop"
    /\ chunkIndex < Len(apiChunks)
    /\ IF Len(apiChunks[chunkIndex + 1]) = 0
       THEN chunkIndex' = chunkIndex + 1 /\ UNCHANGED <<apc, apiLog>>
       ELSE /\ apiLog' = Append(apiLog, Event("call", chunkIndex + 1))
            /\ apc' = "awaiting"
            /\ UNCHANGED chunkIndex
    /\ UNCHANGED <<apiMessages, tokensPerChunk, apiChunks, allResults>>

\* lines 146-160: the response arrives; its text parses as JSON or not; a
\* delay follows unless this was the last chunk
ChunkResponds ==
    /\ UNCHANGED notChunk
    /\ apc = "awaiting"
    /\ \E parses \in BOOLEAN :
           allResults' = IF parses THEN allResults \cup {chunkIndex + 1}
                         ELSE allResults
    /\ apiLog' = Append(apiLog, Event("return", chunkIndex + 1))
    /\ IF chunkIndex < Len(apiChunks) - 1
       THEN apc' = "delaying" /\ UNCHANGED chunkIndex
       ELSE apc' = "loop" /\ chunkIndex' = chunkIndex + 1
    /\ UNCHANGED <<apiMessages, tokensPerChunk, apiChunks>>

\* the delay(1000) of line 158 elapses
DelayElapses ==
    /\ UNCHANGED notChunk
    /\ apc = "delaying"
    /\ apiLog' = Append(apiLog, Event("delay", chunkIndex + 1))
    /\ apc' = "loop"
    /\ chunkIndex' = chunkIndex + 1
    /\ UNCHANGED <<apiMessages, tokensPerChunk, apiChunks, allResults>>

\* lines 161-164: the API call rejects; the catch block goes on to the next
\* chunk
ChunkFails ==
    /\ UNCHANGED notChunk
    /\ apc = "awaiting"
    /\ apiLog' = Append(apiLog, Event("throw", chunkIndex + 1))
    /\ apc' = "loop"
    /\ chunkIndex' = chunkIndex + 1
    /\ UNCHANGED <<apiMessages, tokensPerChunk, apiChunks, allResults>>

\* lines 167-175: the results are aggregated and returned
Aggregate ==
    /\ UNCHANGED notChunk
    /\ apc = "loop"
    /\ chunkIndex >= Len(apiChunks)
    /\ apc' = "returned"
    /\ UNCHANGED <<apiMessages, tokensPerChunk, apiChunks, chunkIndex,
                   allResults, apiLog>>

ChunkNext ==
    StartChunk \/ ChunkResponds \/ DelayElapses \/ ChunkFails \/ Aggregate

\* =========================================== mergeAnalysisResults alone
MergeInit ==
    /\ results \in SeqsUpTo(ResultPool, MaxResults)
    /\ merged = Null
    /\ mergedReversed = Null
    /\ mpc = "input"

Merge ==
    /\ UNCHANGED notMerge
    /\ mpc = "input"
    /\ merged' = mergeAnalysisResults(results)
    /\ mpc' = "merged"
    /\ UNCHANGED <<results, mergedReversed>>

\* the same per-batch results are merged in the opposite order
MergeReversed ==
    /\ UNCHANGED notMerge
    /\ mpc = "merged"
    /\ mergedReversed' =
           mergeAnalysisResults([i \in 1..Len(results) |->
                                    results[Len(results) + 1 - i]])
    /\ mpc' = "swapped"
    /\ UNCHANGED <<results, merged>>

\* ========================================================= SessionCleanup
\* The text of a session file is modelled by the set of phrases that occur
\* in it; content.includes(p) is membership.
Fingerprints ==
    { "Analyze the entire AI-human development session transcript",
      "Analyze a development session and extract an engaging developer story",
      "development session between a human developer and an AI assistant",
      "CONFIDENCE SCORING CRITERIA",
      "session-context",
      "analysis-criteria" }

\* transcripts written by the user's own sessions
PlainUserText == {"user text"}
UserMentionsTag == {"user text", "session-context"}
UserContents == {PlainUserText, UserMentionsTag}
\* transcripts of the system's own calls: they embed the prompt that was sent
AnalysisPrompt ==
    {"Analyze the entire AI-human development session transcript"}
StoryPrompt ==
    { "Analyze a development session and extract an engaging developer story",
      "session-context", "analysis-criteria" }
PromptContents == {AnalysisPrompt, StoryPrompt}

\* names of the session files of the guarded project directory
SessionIds == {"s1", "s2"}
NoCall == -1
NoFile == [exists |-> FALSE, content |-> {}, mtime |-> 0, origin |-> "none"]

\* lines 249-255
isMemarisSession(content) == \E p \in Fingerprints : p \in content

\* variant that unlinks whatever exists, without the isMemarisSession test
cleanupSessionDeletesUngated(fs, sessionId) == fs[sessionId].exists
\* cleanupSession returns true, having unlinked the file (lines 244-260)
cleanupSessionDeletes(fs, sessionId) ==
    fs[sessionId].exists /\ isMemarisSession(fs[sessionId].content)

\* variant that runs cleanupSession over the whole directory
afterCleanupOfWholeDirectory(fs, ids) ==
    [id \in SessionIds |->
        IF cleanupSessionDeletes(fs, id) THEN NoFile ELSE fs[id]]
\* the directory after cleanupSession has been called on every id of ids
afterCleanupOf(fs, ids) ==
    [id \in SessionIds |->
        IF id \in ids /\ cleanupSessionDeletes(fs, id) THEN NoFile ELSE fs[id]]

\* what the guard saw of the files it opened during one operation, and
\* whether each is gone afterwards
examinedBy(fs, fsAfter, ids, tracked, callStart) ==
    { [id |-> id, content |-> fs[id].content, origin |-> fs[id].origin,
       recent |-> fs[id].mtime > callStart, tracked |-> id \in tracked,
       deleted |-> ~fsAfter[id].exists] : id \in {i \in ids : fs[i].exists} }

\* findRecentSession: the ids it can return; several when the newest
\* modification time is shared, none when no file is newer than the stamp
findRecentSession(fs, afterTimestamp) ==
    LET recent == {id \in SessionIds :
                      fs[id].exists /\ fs[id].mtime > afterTimestamp}
    IN  {id \in recent : \A o \in recent : fs[o].mtime <= fs[id].mtime}

GuardIdle ==
    /\ files = [id \in SessionIds |-> NoFile]
    /\ createdSessions = {}
    /\ now = 0
    /\ beforeQueryTime = NoCall
    /\ inFlight = FALSE
    /\ pollPending = FALSE
    /\ lastOp = "none"
    /\ examined = {}

GuardInit == GuardIdle

Tick ==
    /\ UNCHANGED notGuard
    /\ now < MaxTime
    /\ now' = now + 1
    /\ UNCHANGED <<files, createdSessions, beforeQueryTime, inFlight,
                   pollPending, lastOp, examined>>

\* the user's own assistant session creates or appends to a transcript
UserWritesSession ==
    /\ UNCHANGED notGuard
    /\ \E id \in SessionIds, content \in UserContents :
           /\ files[id].origin \in {"none", "user"}
           /\ files' = [files EXCEPT ![id] =
                           [exists |-> TRUE, content |-> content, mtime |-> now,
                            origin |-> "user"]]
           /\ UNCHANGED <<createdSessions, now, beforeQueryTime, inFlight,
                          pollPending, lastOp, examined>>

\* analyzeSession issues its query and arms the 100 ms timer
\* (story-analyzer.ts:86-109)
StartQuery ==
    /\ UNCHANGED notGuard
    /\ ~inFlight
    /\ ~pollPending
    /\ beforeQueryTime' = now
    /\ inFlight' = TRUE
    /\ pollPending' = TRUE
    /\ lastOp' = "query"
    /\ examined' = {}
    /\ UNCHANGED <<files, createdSessions, now>>

\* the assistant tool run by the query writes the transcript of the call
QueryWritesSession ==
    /\ UNCHANGED notGuard
    /\ \E id \in SessionIds, content \in PromptContents :
           /\ inFlight
           /\ ~files[id].exists
           /\ files' = [files EXCEPT ![id] =
                           [exists |-> TRUE, content |-> content, mtime |-> now,
                            origin |-> "memaris"]]
           /\ UNCHANGED <<createdSessions, now, beforeQueryTime, inFlight,
                          pollPending, lastOp, examined>>

\* the timer callback of story-analyzer.ts:103-108
PollTimer ==
    /\ UNCHANGED notGuard
    /\ pollPending
    /\ pollPending' = FALSE
    /\ \/ /\ findRecentSession(files, beforeQueryTime) = {}
          /\ UNCHANGED createdSessions
       \/ \E id \in findRecentSession(files, beforeQueryTime) :
             createdSessions' = createdSessions \cup {id}
    /\ UNCHANGED <<files, now, beforeQueryTime, inFlight, lastOp, examined>>

QueryReturns ==
    /\ UNCHANGED notGuard
    /\ inFlight
    /\ inFlight' = FALSE
    /\ lastOp' = "returned"
    /\ examined' = {}
    /\ UNCHANGED <<files, createdSessions, now, beforeQueryTime, pollPending>>

\* trackSession called with any id (lines 232-235)
trackSession ==
    /\ UNCHANGED notGuard
    /\ \E sessionId \in SessionIds :
           /\ createdSessions' = createdSessions \cup {sessionId}
           /\ UNCHANGED <<files, now, beforeQueryTime, inFlight, pollPending,
                          lastOp, examined>>

\* cleanup (lines 275-294)
cleanup ==
    /\ UNCHANGED notGuard
    /\ lastOp' = "cleanup"
    /\ IF createdSessions = {}
       THEN UNCHANGED <<files, createdSessions>> /\ examined' = {}
       ELSE /\ files' = afterCleanupOf(files, createdSessions)
            /\ examined' = examinedBy(files, files', createdSessions,
                                      createdSessions, beforeQueryTime)
            /\ createdSessions' = {}
    /\ UNCHANGED <<now, beforeQueryTime, inFlight, pollPending>>

\* cleanupExistingPollution (lines 299-325)
cleanupExistingPollution ==
    /\ UNCHANGED notGuard
    /\ LET untracked == {id \in SessionIds :
                            files[id].exists /\ id \notin createdSessions}
       IN  /\ lastOp' = "cleanupExistingPollution"
           /\ files' = afterCleanupOf(files, untracked)
           /\ examined' = examinedBy(files, files', untracked, createdSessions,
                                    beforeQueryTime)
           /\ UNCHANGED <<createdSessions, now, beforeQueryTime, inFlight,
                          pollPending>>

GuardNext ==
    \/ Tick \/ UserWritesSession \/ StartQuery \/ QueryWritesSession
    \/ PollTimer \/ QueryReturns \/ trackSession \/ cleanup
    \/ cleanupExistingPollution

\* ======================================================== ProjectDetector
\* ---- JavaScript string and array primitives on character sequences
ReplaceAll(s, from, to) ==
    [i \in 1..Len(s) |-> IF s[i] = from THEN to ELSE s[i]]

toLowerCase(s) == [i \in 1..Len(s) |-> IF s[i] = "B" THEN "b" ELSE s[i]]

\* String.prototype.split(sep): always at least one piece
RECURSIVE SplitFrom(_, _, _)
SplitFrom(s, sep, piece) ==
    IF s = <<>> THEN <<piece>>
    ELSE IF Head(s) = sep THEN <<piece>> \o SplitFrom(Tail(s), sep, <<>>)
         ELSE SplitFrom(Tail(s), sep, Append(piece, Head(s)))
Split(s, sep) == SplitFrom(s, sep, <<>>)

RECURSIVE Join(_, _)
Join(pieces, sep) ==
    IF pieces = <<>> THEN <<>>
    ELSE IF Len(pieces) = 1 THEN pieces[1]
         ELSE pieces[1] \o <<sep>> \o Join(Tail(pieces), sep)

\* Array.prototype.slice(-n) and slice(0, -n)
SliceLast(xs, n) ==
    IF n = 0 \/ n >= Len(xs) THEN xs ELSE SubSeq(xs, Len(xs) - n + 1, Len(xs))
SliceButLast(xs, n) ==
    IF n >= Len(xs) THEN <<>> ELSE SubSeq(xs, 1, Len(xs) - n)

\* .filter(Boolean) on a list of strings
RECURSIVE FilterNonEmpty(_)
FilterNonEmpty(pieces) ==
    IF pieces = <<>> THEN <<>>
    ELSE IF Head(pieces) = <<>> THEN FilterNonEmpty(Tail(pieces))
         ELSE <<Head(pieces)>> \o FilterNonEmpty(Tail(pieces))

\* s.replace(/\/$/, '') and s.replace(/^-/, '')
StripTrailingSlash(s) ==
    IF Len(s) > 0 /\ s[Len(s)] = "/" THEN SubSeq(s, 1, Len(s) - 1) ELSE s
StripLeadingDash(s) ==
    IF Len(s) > 0 /\ s[1] = "-" THEN Tail(s) ELSE s

Min(a, b) == IF a <= b THEN a ELSE b

\* path.basename of a resolved absolute path
basename(absolutePath) ==
    LET pieces == Split(absolutePath, "/") IN pieces[Len(pieces)]

\* variant that forgets the leading dash
pathToClaudeFolderNameNoDash(absolutePath) ==
    ReplaceAll(Tail(absolutePath), "/", "-")
\* ---- lines 14-17
pathToClaudeFolderName(absolutePath) ==
    <<"-">> \o ReplaceAll(Tail(absolutePath), "/", "-")

\* ---- lines 123-165
\* Method 1 (line 139): every hyphen is a separator
simplePath(pathWithoutLeadingDash) ==
    <<"/">> \o ReplaceAll(pathWithoutLeadingDash, "-", "/")

\* Methods 2 and 3 (lines 146-148, 156-158): the last k segments are one name
reconstructedPath(segments, k) ==
    <<"/">> \o Join(SliceButLast(segments, k), "/") \o <<"/">>
            \o Join(SliceLast(segments, k), "-")

isExactPathMatch(claudeProjectDir, currentPath) ==
    IF ~(Len(claudeProjectDir) > 0 /\ claudeProjectDir[1] = "-") THEN FALSE
    ELSE
    LET pathWithoutLeadingDash == Tail(claudeProjectDir)
        segments == Split(pathWithoutLeadingDash, "-")
        normalizedCurrentPath == StripTrailingSlash(currentPath)
    IN  \/ simplePath(pathWithoutLeadingDash) = normalizedCurrentPath
        \/ /\ Len(segments) >= 2
           /\ reconstructedPath(segments, 2) = normalizedCurrentPath
        \/ /\ Len(segments) >= 3
           /\ reconstructedPath(segments, 3) = normalizedCurrentPath

\* ---- lines 167-174
isProjectNameMatch(claudeProjectDir, projectName) ==
    LET pieces == Split(claudeProjectDir, "-")
        claudeProjectName == pieces[Len(pieces)]
    IN  toLowerCase(claudeProjectName) = toLowerCase(projectName)

\* ---- lines 176-193
isPartialPathMatch(claudeProjectDir, currentPath) ==
    LET normalizedClaudePath ==
            ReplaceAll(StripLeadingDash(claudeProjectDir), "-", "/")
        currentPathSegments == FilterNonEmpty(Split(currentPath, "/"))
        claudePathSegments == FilterNonEmpty(Split(normalizedClaudePath, "/"))
        segmentsToCheck ==
            Min(3, Min(Len(currentPathSegments), Len(claudePathSegments)))
        currentTail == SliceLast(currentPathSegments, segmentsToCheck)
        claudeTail == SliceLast(claudePathSegments, segmentsToCheck)
    IN  \E i \in 1..Len(currentTail) :
            /\ i <= Len(claudeTail)
            /\ toLowerCase(currentTail[i]) = toLowerCase(claudeTail[i])

\* ---- the projects root
\* working directories the resolver is run in
Cwds ==
    { <<"/", "a">>,
      <<"/", "a", "/", "b">>,
      <<"/", "a", "-", "b">>,
      <<"/", "a", "/", "a", "-", "b">> }
\* directory names that can exist under the projects root: the encodings of
\* the working directories and names of other projects
DirNames ==
    {pathToClaudeFolderName(c) : c \in Cwds} \cup
    { <<"-", "b", "-", "B">>, <<"-", "a", "-", "a">> }

NoDir == [exists |-> FALSE, readable |-> TRUE, sessions |-> <<>>]
NoProject ==
    [found |-> FALSE, path |-> <<>>, name |-> <<>>, lastModified |-> 0,
     sessionCount |-> 0, sessions |-> <<>>, matchType |-> "none"]

existsSync(st, dir) == dir \in DOMAIN st /\ st[dir].exists

\* lines 289-296: statSync of the projects root
claudeDirectoryExists == root # "missing"

\* readdirSync(PROJECTS_DIR) of lines 86-88 throws
rootListingFails == root # "ok"

\* variant whose catch block is missing the return of the empty list and
\* hands on what the directory holds
discoverSessionsIgnoresFailure(st, dir) == st[dir].sessions
\* lines 226-256: one SessionInfo per .jsonl file of the directory; a
\* directory that cannot be listed makes readdirSync throw and the catch
\* block returns the empty list
discoverSessions(st, dir) ==
    IF ~st[dir].readable THEN <<>> ELSE st[dir].sessions

\* lines 281-287
formatProjectName(rawName) ==
    LET pieces == Split(ReplaceAll(StripLeadingDash(rawName), "-", "/"), "/")
        last == pieces[Len(pieces)]
    IN  IF last = <<>> THEN rawName ELSE last

\* sessions.sort by lastMessageTime, newest first (stable)
RECURSIVE InsertNewestFirst(_, _)
InsertNewestFirst(sorted, x) ==
    IF sorted = <<>> THEN <<x>>
    ELSE IF Head(sorted).lastModified >= x.lastModified
         THEN <<Head(sorted)>> \o InsertNewestFirst(Tail(sorted), x)
         ELSE <<x>> \o sorted
RECURSIVE SortNewestFirst(_)
SortNewestFirst(xs) ==
    IF xs = <<>> THEN <<>>
    ELSE InsertNewestFirst(SortNewestFirst(SubSeq(xs, 1, Len(xs) - 1)),
                           xs[Len(xs)])

RECURSIVE SeqMax(_)
SeqMax(ns) ==
    IF Len(ns) = 1 THEN ns[1]
    ELSE LET m == SeqMax(Tail(ns)) IN IF ns[1] >= m THEN ns[1] ELSE m

\* variant without the early return of lines 202-204
createProjectInfoKeepsEmpty(st, claudeProjectDir, matchType) ==
    LET sessions == discoverSessions(st, claudeProjectDir)
    IN  [found |-> TRUE,
         path |-> claudeProjectDir,
         name |-> formatProjectName(claudeProjectDir),
         lastModified |->
             IF Len(sessions) = 0 THEN 0
             ELSE SeqMax([i \in 1..Len(sessions) |-> sessions[i].lastModified]),
         sessionCount |-> Len(sessions),
         sessions |-> SortNewestFirst(sessions),
         matchType |-> matchType]
\* lines 195-224 (recentActivity, which the resolver never reads, is left
\* to analyzeProject below)
createProjectInfo(st, claudeProjectDir, matchType) ==
    LET sessions == discoverSessions(st, claudeProjectDir)
    IN  IF Len(sessions) = 0 THEN NoProject
        ELSE [found |-> TRUE,
              path |-> claudeProjectDir,
              name |-> formatProjectName(claudeProjectDir),
              lastModified |->
                  SeqMax([i \in 1..Len(sessions) |-> sessions[i].lastModified]),
              sessionCount |-> Len(sessions),
              sessions |-> SortNewestFirst(sessions),
              matchType |-> matchType]

\* the strategy the loop body of lines 92-114 applies to one directory
matchTypeOf(projectDir, absolutePath, projectName) ==
    IF isExactPathMatch(projectDir, absolutePath) THEN "exact-path"
    ELSE IF isProjectNameMatch(projectDir, projectName) THEN "project-name"
    ELSE IF isPartialPathMatch(projectDir, absolutePath) THEN "partial-path"
    ELSE "none"

\* the loop of lines 92-114; projectDirs is the listing readdirSync returned
RECURSIVE matchLoop(_, _, _, _)
matchLoop(st, projectDirs, absolutePath, projectName) ==
    IF projectDirs = <<>> THEN <<>>
    ELSE LET projectDir == Head(projectDirs)
             mt == matchTypeOf(projectDir, absolutePath, projectName)
             project == createProjectInfo(st, projectDir, mt)
             rest == matchLoop(st, Tail(projectDirs), absolutePath,
                               projectName)
         IN  IF mt # "none" /\ project.found THEN <<project>> \o rest
             ELSE rest

\* lines 80-121: no projects root, or a root whose listing throws (caught at
\* line 117), gives the empty list
findMatchingProjects(st, projectDirs, absolutePath, projectName) ==
    IF ~claudeDirectoryExists \/ rootListingFails THEN <<>>
    ELSE matchLoop(st, projectDirs, absolutePath, projectName)

\* variant with the comparator reversed (a.lastModified - b.lastModified)
mostRecentOldestFirst(projects) ==
    LET i == CHOOSE i \in 1..Len(projects) :
                /\ \A j \in 1..Len(projects) :
                       projects[j].lastModified >= projects[i].lastModified
                /\ \A j \in 1..(i - 1) :
                       projects[j].lastModified > projects[i].lastModified
    IN  projects[i]
\* matchingProjects.sort((a, b) => b.lastModified - a.lastModified)[0]
mostRecent(projects) ==
    LET i == CHOOSE i \in 1..Len(projects) :
                /\ \A j \in 1..Len(projects) :
                       projects[j].lastModified <= projects[i].lastModified
                /\ \A j \in 1..(i - 1) :
                       projects[j].lastModified < projects[i].lastModified
    IN  projects[i]

\* variant that returns the first match of the listing
detectByFallbackFirstMatch(st, projectDirs, absolutePath) ==
    LET matchingProjects ==
            findMatchingProjects(st, projectDirs, absolutePath,
                                 basename(absolutePath))
    IN  IF Len(matchingProjects) = 0 THEN NoProject
        ELSE matchingProjects[1]
\* lines 43-69: the fallback search
detectByFallback(st, projectDirs, absolutePath) ==
    LET matchingProjects ==
            findMatchingProjects(st, projectDirs, absolutePath,
                                 basename(absolutePath))
    IN  IF Len(matchingProjects) = 0 THEN NoProject
        ELSE IF Len(matchingProjects) = 1 THEN matchingProjects[1]
        ELSE mostRecent(matchingProjects)

\* variant without the direct lookup of lines 31-41
detectCurrentProjectFallbackOnly(st, projectDirs, absolutePath) ==
    detectByFallback(st, projectDirs, absolutePath)
\* lines 22-75
detectCurrentProject(st, projectDirs, absolutePath) ==
    LET expectedFolderName == pathToClaudeFolderName(absolutePath)
        project == IF existsSync(st, expectedFolderName)
                   THEN createProjectInfo(st, expectedFolderName, "exact-path")
                   ELSE NoProject
    IN  IF project.found /\ Len(project.sessions) > 0 THEN project
        ELSE detectByFallback(st, projectDirs, absolutePath)

existingDirs(st) == {d \in DirNames : st[d].exists}
Listings(S) ==
    {f \in [1..Cardinality(S) -> S] :
        \A i, j \in 1..Cardinality(S) : i # j => f[i] # f[j]}

\* ---- ProjectDiscovery (part_005:154-300)
\* the clock counts ticks; a day is two of them, a week three, a month four
oneDay == 2
oneWeek == 3
oneMonth == 4
\* bytes of every session file the model writes
SessionSize == 2000

\* calculateActivityScore: 100, 50, 20 or 5 by age, plus min(size / 1000, 10)
RECURSIVE calculateActivityScore(_, _)
calculateActivityScore(sessions, nowMs) ==
    IF sessions = <<>> THEN 0
    ELSE LET age == nowMs - Head(sessions).lastModified
             byAge == IF age < oneDay THEN 100
                      ELSE IF age < oneWeek THEN 50
                      ELSE IF age < oneMonth THEN 20 ELSE 5
         IN  byAge + Min(Head(sessions).size \div 1000, 10)
                   + calculateActivityScore(Tail(sessions), nowMs)

\* analyzeProject (part_005:209-233)
analyzeProject(st, projectName, nowMs) ==
    LET sessions == discoverSessions(st, projectName)
    IN  IF Len(sessions) = 0 THEN NoProject
        ELSE [found |-> TRUE,
              path |-> projectName,
              name |-> formatProjectName(projectName),
              lastModified |->
                  SeqMax([i \in 1..Len(sessions) |-> sessions[i].lastModified]),
              sessionCount |-> Len(sessions),
              sessions |-> SortNewestFirst(sessions),
              recentActivity |-> calculateActivityScore(sessions, nowMs)]

\* projects.sort((a, b) => b.recentActivity - a.recentActivity), stable
RECURSIVE InsertByActivity(_, _)
InsertByActivity(sorted, x) ==
    IF sorted = <<>> THEN <<x>>
    ELSE IF Head(sorted).recentActivity >= x.recentActivity
         THEN <<Head(sorted)>> \o InsertByActivity(Tail(sorted), x)
         ELSE <<x>> \o sorted
RECURSIVE SortByActivity(_)
SortByActivity(xs) ==
    IF xs = <<>> THEN <<>>
    ELSE InsertByActivity(SortByActivity(SubSeq(xs, 1, Len(xs) - 1)),
                          xs[Len(xs)])

\* the loop of part_005:169-175
RECURSIVE analyzeLoop(_, _, _)
analyzeLoop(st, projectDirs, nowMs) ==
    IF projectDirs = <<>> THEN <<>>
    ELSE LET projectInfo == analyzeProject(st, Head(projectDirs), nowMs)
             rest == analyzeLoop(st, Tail(projectDirs), nowMs)
         IN  IF projectInfo.found THEN <<projectInfo>> \o rest ELSE rest

\* discoverProjects (part_005:161-183): a root that cannot be listed makes
\* readdirSync throw and the catch block returns the empty list
discoverProjects(st, projectDirs, nowMs) ==
    IF rootListingFails THEN <<>>
    ELSE SortByActivity(analyzeLoop(st, projectDirs, nowMs))

ResolveIdle ==
    /\ store = [d \in DirNames |-> NoDir]
    /\ clock = 1
    /\ cwd = <<"/">>
    /\ rpc = "idle"
    /\ detected = NoProject
    /\ root = "ok"
    /\ discovered = <<>>

ResolveInit ==
    /\ store = [d \in DirNames |-> NoDir]
    /\ clock = 1
    /\ cwd \in Cwds
    /\ rpc = "setup"
    /\ detected = NoProject
    /\ root \in {"ok", "missing", "unlistable"}
    /\ discovered = <<>>

\* the assistant tool, or anyone, creates a project directory
MkDir ==
    /\ UNCHANGED notResolve
    /\ \E d \in DirNames :
           /\ rpc = "setup"
           /\ root # "missing"
           /\ ~store[d].exists
           /\ Cardinality(existingDirs(store)) < MaxDirs
           /\ store' = [store EXCEPT ![d] =
                           [exists |-> TRUE, readable |-> TRUE,
                            sessions |-> <<>>]]
           /\ UNCHANGED <<clock, cwd, rpc, detected, root, discovered>>

\* a project directory loses its read permission
MakeUnreadable ==
    /\ UNCHANGED notResolve
    /\ \E d \in DirNames :
           /\ rpc = "setup"
           /\ store[d].exists
           /\ store[d].readable
           /\ store' = [store EXCEPT ![d].readable = FALSE]
           /\ UNCHANGED <<clock, cwd, rpc, detected, root, discovered>>

\* the assistant tool writes a new session file into a project directory
WriteSession ==
    /\ UNCHANGED notResolve
    /\ \E d \in DirNames :
           /\ rpc = "setup"
           /\ store[d].exists
           /\ clock <= MaxClock
           /\ store' = [store EXCEPT ![d].sessions =
                           Append(@, [id |-> Len(@) + 1, lastModified |-> clock,
                                      size |-> SessionSize])]
           /\ clock' = clock + 1
           /\ UNCHANGED <<cwd, rpc, detected, root, discovered>>

DetectCurrentProject ==
    /\ UNCHANGED notResolve
    /\ \E projectDirs \in Listings(existingDirs(store)) :
           /\ rpc = "setup"
           /\ detected' = detectCurrentProject(store, projectDirs, cwd)
           /\ rpc' = "detected"
           /\ UNCHANGED <<store, clock, cwd, root, discovered>>

DiscoverProjects ==
    /\ UNCHANGED notResolve
    /\ \E projectDirs \in Listings(existingDirs(store)) :
           /\ rpc = "setup"
           /\ discovered' = discoverProjects(store, projectDirs, clock)
           /\ rpc' = "discovered"
           /\ UNCHANGED <<store, clock, cwd, detected, root>>

ResolveNext ==
    \/ MkDir \/ MakeUnreadable \/ WriteSession \/ DetectCurrentProject
    \/ DiscoverProjects

MergeNext == Merge \/ MergeReversed

\* ======================================== the folder-name codec on its own
\* resolved absolute paths: the root, or segments over a small alphabet
SegChars == {"a", "-"}
Segments == UNION {[1..n -> SegChars] : n \in 1..MaxSegLen}
PathOf(segs) == <<"/">> \o Join(segs, "/")
Paths == {PathOf(segs) : segs \in SeqsUpTo(Segments, MaxDepth)}

NoDecode == [naive |-> <<>>, segments |-> 0, lastTwo |-> <<>>,
             accepted |-> FALSE]

CodecIdle ==
    /\ path = <<"/">> /\ folder = <<>> /\ decoded = NoDecode /\ cpc = "idle"

CodecInit ==
    /\ path \in Paths
    /\ folder = <<>>
    /\ decoded = NoDecode
    /\ cpc = "input"

\* pathToClaudeFolderName(absolutePath)
Encode ==
    /\ UNCHANGED notCodec
    /\ cpc = "input"
    /\ folder' = pathToClaudeFolderName(path)
    /\ cpc' = "encoded"
    /\ UNCHANGED <<path, decoded>>

\* isExactPathMatch(folder, path), with the paths its strategies rebuilt
ExactPathMatch ==
    /\ UNCHANGED notCodec
    /\ cpc = "encoded"
    /\ LET segments == Split(StripLeadingDash(folder), "-")
       IN  decoded' =
               [naive |-> simplePath(StripLeadingDash(folder)),
                segments |-> Len(segments),
                lastTwo |-> reconstructedPath(segments, 2),
                accepted |-> isExactPathMatch(folder, path)]
    /\ cpc' = "matched"
    /\ UNCHANGED <<path, folder>>

CodecNext == Encode \/ ExactPathMatch

\* ================================================ JSONLParser (part_005)
\* A line of the file is blank, text JSON.parse rejects, the JSON literal
\* null, or a JSON object; an object carries a timestamp or none (a session
\* summary entry), and new Date(undefined).getTime() is NaN.
NaN == -1
Timestamps == {1, 2}
LineKinds ==
    { [kind |-> "blank", timestamp |-> NaN],
      [kind |-> "malformed", timestamp |-> NaN],
      [kind |-> "null", timestamp |-> NaN],
      [kind |-> "object", timestamp |-> NaN] }
    \cup {[kind |-> "object", timestamp |-> t] : t \in Timestamps}

\* the loop of lines 14-24: the parsed value of every line that is not
\* blank and that JSON.parse accepts, tagged with its line number
RECURSIVE parseLines(_, _)
parseLines(ls, i) ==
    IF i > Len(ls) THEN <<>>
    ELSE IF ls[i].kind \in {"blank", "malformed"} THEN parseLines(ls, i + 1)
         ELSE <<[line |-> i, kind |-> ls[i].kind,
                 timestamp |-> ls[i].timestamp]>> \o parseLines(ls, i + 1)

\* the comparator of lines 26-28; the engine reads a NaN result as 0
compareByTimestamp(a, b) ==
    IF a.timestamp = NaN \/ b.timestamp = NaN THEN 0
    ELSE a.timestamp - b.timestamp

\* Array.prototype.sort of the engine for short arrays: the leading run is
\* found (and reversed if strictly descending), the rest is placed by
\* binary insertion
RECURSIVE runLength(_, _, _)
runLength(a, idx, isDescending) ==
    IF idx > Len(a) THEN idx - 1
    ELSE LET order == compareByTimestamp(a[idx], a[idx - 1])
         IN  IF (isDescending /\ order >= 0) \/ (~isDescending /\ order < 0)
             THEN idx - 1
             ELSE runLength(a, idx + 1, isDescending)

Reverse(xs) == [i \in 1..Len(xs) |-> xs[Len(xs) + 1 - i]]

\* the position binary search gives pivot within the sorted prefix a[1..n]:
\* left and right are 0-based bounds as in the engine
RECURSIVE insertionPoint(_, _, _, _)
insertionPoint(a, pivot, left, right) ==
    IF left >= right THEN left
    ELSE LET mid == left + ((right - left) \div 2)
         IN  IF compareByTimestamp(pivot, a[mid + 1]) < 0
             THEN insertionPoint(a, pivot, left, mid)
             ELSE insertionPoint(a, pivot, mid + 1, right)

RECURSIVE binaryInsertionSort(_, _)
binaryInsertionSort(a, start) ==
    IF start > Len(a) THEN a
    ELSE LET pivot == a[start]
             left == insertionPoint(a, pivot, 0, start - 1)
             placed == SubSeq(a, 1, left) \o <<pivot>>
                       \o SubSeq(a, left + 1, start - 1)
                       \o SubSeq(a, start + 1, Len(a))
         IN  binaryInsertionSort(placed, start + 1)

sortByTimestamp(a) ==
    IF Len(a) < 2 THEN a
    ELSE LET isDescending == compareByTimestamp(a[2], a[1]) < 0
             run == runLength(a, 3, isDescending)
             made == IF isDescending
                     THEN Reverse(SubSeq(a, 1, run)) \o SubSeq(a, run + 1, Len(a))
                     ELSE a
         IN  binaryInsertionSort(made, run + 1)

\* reading .timestamp of null throws a TypeError inside the comparator
comparatorThrows(a) ==
    Len(a) >= 2 /\ \E i \in 1..Len(a) : a[i].kind = "null"

\* parseSessionFile (lines 8-33); the outer catch returns the empty list
parseSessionFile(ls) ==
    LET pushed == parseLines(ls, 1)
    IN  IF comparatorThrows(pushed) THEN <<>>
        ELSE sortByTimestamp(pushed)

ParseIdle ==
    /\ lines = <<>> /\ parsed = <<>> /\ reparsed = <<>> /\ ppc = "idle"

ParseInit ==
    /\ lines \in SeqsUpTo(LineKinds, MaxLines)
    /\ parsed = <<>>
    /\ reparsed = <<>>
    /\ ppc = "file"

ParseSessionFile ==
    /\ UNCHANGED notParse
    /\ ppc = "file"
    /\ parsed' = parseSessionFile(lines)
    /\ ppc' = "parsed"
    /\ UNCHANGED <<lines, reparsed>>

\* the same unchanged file is parsed again
ParseSessionFileAgain ==
    /\ UNCHANGED notParse
    /\ ppc = "parsed"
    /\ reparsed' = parseSessionFile(lines)
    /\ ppc' = "reparsed"
    /\ UNCHANGED <<lines, parsed>>

ParseNext == ParseSessionFile \/ ParseSessionFileAgain

\* ============================ the --all collection (cli/index.ts:240-274)
\* the loop of processBatches as a whole: the batches it collects, as lists
\* of message positions, from batch n and cursor p on
RECURSIVE batchLoop(_, _, _, _)
batchLoop(msgs, C, n, p) ==
    IF n > batchesNeeded(msgs, C) THEN <<>>
    ELSE LET batch == collectBatch(msgs, C, p, <<>>, 0)
         IN  <<batch>> \o batchLoop(msgs, C, n + 1, p + Len(batch))

\* every collected message carries this much text; it passes
\* hasSubstantialContent (content.trim().length > 10)
MessageChars == 12
hasSubstantialContent(chars) == chars > 10

\* a session file of the project: its lines are well-formed entries with a
\* timestamp, stored in any order; the file was last written when its
\* latest message was appended
SessionFilePool ==
    { [lastModified |-> SeqMax(ts),
       lines |-> [i \in 1..Len(ts) |->
                     [kind |-> "object", timestamp |-> ts[i]]]] :
        ts \in SeqsUpTo(Timestamps, MaxFileLen) \ {<<>>} }

CollectIdle ==
    /\ projectSessions = <<>> /\ sessionCursor = 0
    /\ allHistoryMessages = <<>> /\ collectBatchSize = 1
    /\ historyBatches = <<>> /\ kpc = "idle"

\* the project the resolver returned: its sessions were listed in directory
\* order and sorted by createProjectInfo (project-detector.ts:213-215)
CollectInit ==
    /\ \E listing \in SeqsUpTo(SessionFilePool, MaxFiles) \ {<<>>} :
           projectSessions = SortNewestFirst(listing)
    /\ sessionCursor = 0
    /\ allHistoryMessages = <<>>
    /\ collectBatchSize \in BatchSizes
    /\ historyBatches = <<>>
    /\ kpc = "collecting"

\* one iteration of the loop of lines 246-255
CollectSession ==
    /\ UNCHANGED notCollect
    /\ kpc = "collecting"
    /\ sessionCursor < Len(projectSessions)
    /\ LET session == projectSessions[sessionCursor + 1]
           msgs == parseSessionFile(session.lines)
           substantialMessages ==
               SelectSeq(msgs, LAMBDA m : hasSubstantialContent(MessageChars))
       IN  allHistoryMessages' = allHistoryMessages \o
               [i \in 1..Len(substantialMessages) |->
                   [session |-> sessionCursor + 1,
                    line |-> substantialMessages[i].line,
                    timestamp |-> substantialMessages[i].timestamp]]
    /\ sessionCursor' = sessionCursor + 1
    /\ UNCHANGED <<projectSessions, collectBatchSize, historyBatches, kpc>>

\* line 274: processBatches forms its batches of the collected messages
ProcessCollected ==
    /\ UNCHANGED notCollect
    /\ kpc = "collecting"
    /\ sessionCursor = Len(projectSessions)
    /\ LET chars == [i \in 1..Len(allHistoryMessages) |-> MessageChars]
           plan == batchLoop(chars, collectBatchSize, 1, 0)
       IN  historyBatches' =
               [b \in 1..Len(plan) |->
                   [i \in 1..Len(plan[b]) |-> allHistoryMessages[plan[b][i]]]]
    /\ kpc' = "batched"
    /\ UNCHANGED <<projectSessions, sessionCursor, allHistoryMessages,
                   collectBatchSize>>

CollectNext == CollectSession \/ ProcessCollected

\* ================= ClaudeCodeAnalyzer.analyzeConversation (part_004:279-417)
\* A JSON value is undefined (the field is absent), null, a string or an
\* array of strings.
Undefined == [t |-> "undefined", s |-> "", a |-> <<>>]
JsNull == [t |-> "null", s |-> "", a |-> <<>>]
Str(x) == [t |-> "string", s |-> x, a |-> <<>>]
Arr(xs) == [t |-> "array", s |-> "", a |-> xs]

\* Boolean(v)
Truthy(v) == v.t = "array" \/ (v.t = "string" /\ v.s # "")
\* v || d
Or(v, d) == IF Truthy(v) THEN v ELSE d
\* Array.isArray(v) ? v : []
arrayOrEmpty(v) == IF v.t = "array" THEN v ELSE Arr(<<>>)
\* variant that wraps the literal "unknown" like any other string
arrayOrWrappedKeepsUnknown(v) ==
    IF v.t = "array" THEN v
    ELSE IF Truthy(v) THEN Arr(<<v.s>>) ELSE Arr(<<>>)
\* Array.isArray(v) ? v : v === 'unknown' ? [] : [v].filter(Boolean)
arrayOrWrapped(v) ==
    IF v.t = "array" THEN v
    ELSE IF v = Str("unknown") THEN Arr(<<>>)
         ELSE IF Truthy(v) THEN Arr(<<v.s>>) ELSE Arr(<<>>)

\* parsedResult.userProfile?.environment?.f, parsedResult.userProfile?.style?.f
\* and parsedResult.userProfile?.f: undefined when a parent is not there
environmentField(r, f) ==
    IF r.hasUserProfile /\ r.hasEnvironment THEN r[f] ELSE Undefined
styleField(r, f) ==
    IF r.hasUserProfile /\ r.hasStyle THEN r[f] ELSE Undefined
profileField(r, f) == IF r.hasUserProfile THEN r[f] ELSE Undefined

\* the object literal of lines 305-337, repeated at lines 367-399; the
\* nested userProfile is flattened
buildAnalysisResult(r) ==
    [mistakes |-> Or(r.mistakes, Arr(<<>>)),
     successes |-> Or(r.successes, Arr(<<>>)),
     os |-> Or(environmentField(r, "os"), Str("unknown")),
     restrictions |-> arrayOrEmpty(environmentField(r, "restrictions")),
     tools |-> arrayOrEmpty(environmentField(r, "tools")),
     verbosity |-> Or(styleField(r, "verbosity"), Str("concise")),
     techLevel |-> Or(styleField(r, "techLevel"), Str("intermediate")),
     patience |-> Or(styleField(r, "patience"), Str("medium")),
     boundaries |-> arrayOrWrapped(profileField(r, "boundaries")),
     preferences |-> arrayOrWrapped(profileField(r, "preferences")),
     recommendations |-> arrayOrEmpty(r.recommendations)]

\* responses: a complete one, then one group of fields varied at a time
StringValues ==
    {Undefined, JsNull, Str(""), Str("unknown"), Str("detailed")}
ListValues ==
    {Undefined, JsNull, Str(""), Str("unknown"), Str("git"), Arr(<<>>),
     Arr(<<"git">>)}
CompleteResponse ==
    [hasUserProfile |-> TRUE, hasEnvironment |-> TRUE, hasStyle |-> TRUE,
     mistakes |-> Arr(<<"m">>), successes |-> Arr(<<"s">>),
     os |-> Str("detailed"), verbosity |-> Str("detailed"),
     techLevel |-> Str("detailed"), patience |-> Str("detailed"),
     restrictions |-> Arr(<<"git">>), tools |-> Arr(<<"git">>),
     boundaries |-> Arr(<<"git">>), preferences |-> Arr(<<"git">>),
     recommendations |-> Arr(<<"git">>)]
ResponsePool ==
    { [CompleteResponse EXCEPT !.os = o, !.verbosity = v, !.techLevel = t,
                               !.patience = q] :
        o \in StringValues, v \in StringValues, t \in StringValues,
        q \in StringValues }
    \cup
    { [CompleteResponse EXCEPT !.restrictions = r, !.tools = t,
                               !.boundaries = b, !.preferences = q,
                               !.recommendations = c] :
        r \in ListValues, t \in ListValues, b \in ListValues,
        q \in ListValues, c \in ListValues }
    \cup
    { [CompleteResponse EXCEPT !.hasUserProfile = u, !.hasEnvironment = e,
                               !.hasStyle = y, !.mistakes = m,
                               !.successes = m] :
        u \in BOOLEAN, e \in BOOLEAN, y \in BOOLEAN,
        m \in {Undefined, Arr(<<"m">>)} }
ScalarFields == {"os", "verbosity", "techLevel", "patience"}
ListFields ==
    {"restrictions", "tools", "boundaries", "preferences", "recommendations"}
NoResult == buildAnalysisResult(CompleteResponse)

ResponseIdle ==
    /\ responseText = "none" /\ parsedResult = CompleteResponse
    /\ analysisResult = NoResult /\ npc = "idle"

\* the text the collaborator answered with: JSON.parse accepts the text
\* between the braces, or accepts it after the repair of lines 351-361, or
\* neither
ResponseInit ==
    /\ responseText \in {"json", "repairable", "garbage"}
    /\ parsedResult \in
           IF responseText = "garbage" THEN {CompleteResponse}
           ELSE ResponsePool
    /\ analysisResult = NoResult
    /\ npc = "response"

\* lines 279-345: parse, build the result, return it
ParseResponse ==
    /\ UNCHANGED notResponse
    /\ npc = "response"
    /\ responseText = "json"
    /\ analysisResult' = buildAnalysisResult(parsedResult)
    /\ npc' = "returned"
    /\ UNCHANGED <<responseText, parsedResult>>

\* lines 347-407: the first parse threw; the repaired text parses
ParseRepairedResponse ==
    /\ UNCHANGED notResponse
    /\ npc = "response"
    /\ responseText = "repairable"
    /\ analysisResult' = buildAnalysisResult(parsedResult)
    /\ npc' = "repaired"
    /\ UNCHANGED <<responseText, parsedResult>>

\* lines 409-417: both parses threw; analyzeConversation throws
ParseResponseFails ==
    /\ UNCHANGED notResponse
    /\ npc = "response"
    /\ responseText = "garbage"
    /\ npc' = "threw"
    /\ UNCHANGED <<responseText, parsedResult, analysisResult>>

ResponseNext == ParseResponse \/ ParseRepairedResponse \/ ParseResponseFails

\* ========================================================= specifications
InitBatch ==
    /\ BatchInit /\ MergeIdle /\ GuardIdle /\ ResolveIdle /\ CodecIdle /\ ParseIdle
    /\ ChunkIdle /\ CollectIdle /\ ResponseIdle
SpecBatch == InitBatch /\ [][BatchNext]_vars

InitMerge ==
    /\ BatchIdle /\ MergeInit /\ GuardIdle /\ ResolveIdle /\ CodecIdle /\ ParseIdle
    /\ ChunkIdle /\ CollectIdle /\ ResponseIdle
SpecMerge == InitMerge /\ [][MergeNext]_vars

InitGuard ==
    /\ BatchIdle /\ MergeIdle /\ GuardInit /\ ResolveIdle /\ CodecIdle /\ ParseIdle
    /\ ChunkIdle /\ CollectIdle /\ ResponseIdle
SpecGuard == InitGuard /\ [][GuardNext]_vars

InitResolve ==
    /\ BatchIdle /\ MergeIdle /\ GuardIdle /\ ResolveInit /\ CodecIdle /\ ParseIdle
    /\ ChunkIdle /\ CollectIdle /\ ResponseIdle
SpecResolve == InitResolve /\ [][ResolveNext]_vars

InitCodec ==
    /\ BatchIdle /\ MergeIdle /\ GuardIdle /\ ResolveIdle /\ CodecInit /\ ParseIdle
    /\ ChunkIdle /\ CollectIdle /\ ResponseIdle
SpecCodec == InitCodec /\ [][CodecNext]_vars

InitChunk ==
    /\ BatchIdle /\ MergeIdle /\ GuardIdle /\ ResolveIdle /\ CodecIdle /\ ParseIdle
    /\ ChunkInit /\ CollectIdle /\ ResponseIdle
SpecChunk == InitChunk /\ [][ChunkNext]_vars

\* a run goes through processBatches or through the API analyzer
InitCalls ==
    /\ MergeIdle /\ GuardIdle /\ ResolveIdle /\ CodecIdle /\ ParseIdle
    /\ CollectIdle /\ ResponseIdle
    /\ \/ BatchInit /\ ChunkIdle
       \/ BatchIdle /\ ChunkInit
SpecCalls == InitCalls /\ [][BatchNext \/ ChunkNext]_vars

InitParse ==
    /\ BatchIdle /\ MergeIdle /\ GuardIdle /\ ResolveIdle /\ CodecIdle /\ ParseInit
    /\ ChunkIdle /\ CollectIdle /\ ResponseIdle
SpecParse == InitParse /\ [][ParseNext]_vars

InitCollect ==
    /\ BatchIdle /\ MergeIdle /\ GuardIdle /\ ResolveIdle /\ CodecIdle /\ ParseIdle
    /\ ChunkIdle /\ CollectInit /\ ResponseIdle
SpecCollect == InitCollect /\ [][CollectNext]_vars

InitResponse ==
    /\ BatchIdle /\ MergeIdle /\ GuardIdle /\ ResolveIdle /\ CodecIdle /\ ParseIdle
    /\ ChunkIdle /\ CollectIdle /\ ResponseInit
SpecResponse == InitResponse /\ [][ResponseNext]_vars

\* ================================================================= claims
Range(f) == {f[i] : i \in DOMAIN f}
Positions(msgs) == [i \in 1..Len(msgs) |-> i]

\* C1: the batches handed to the analyzer, concatenated in batch order, are
\* the input sequence: nothing dropped, duplicated or reordered.
C1_BatchesReproduceInput ==
    pc = "returned" => Flatten(handed) = Positions(messages)

\* C2: a session file disappears only in a step in which its content holds
\* one of the prompt fingerprints; tracking and timing never delete.
C2_DeletionIsFingerprintGated ==
    [][\A id \in SessionIds :
          (files[id].exists /\ ~files'[id].exists)
              => files[id].content \cap Fingerprints # {}]_vars

\* a cleanup() that deleted a fingerprinted file and kept a tracked file,
\* modified after the call started, that holds no fingerprint
C2_Witness ==
    /\ lastOp = "cleanup"
    /\ beforeQueryTime # NoCall
    /\ \E r \in examined : r.deleted /\ r.content \cap Fingerprints # {}
    /\ \E r \in examined :
          /\ r.tracked /\ r.recent /\ r.content \cap Fingerprints = {}
          /\ files[r.id].exists

\* C3: a failed analysis call drops only its batch: the run goes on, every
\* later batch is analyzed, and the merged result holds the findings of
\* every batch that succeeded.
C3_RunContinuesAfterFailure ==
    /\ failedBatches # {} => pc # "threw"
    /\ pc = "returned" =>
          /\ Len(handed) = batchesNeeded(messages, batchSize)
          /\ \A n \in (1..Len(handed)) \ failedBatches :
                BatchFinding(n).mistakes[1] \in Range(mergedResult.mistakes)

\* C4: when the directory named by the encoding of the working directory
\* exists and holds a session (the store being what session discovery can
\* list), the resolver returns that directory as an exact-path match with
\* all of its sessions, whatever else is in the store.
C4_ExactDirectoryWins ==
    LET expected == pathToClaudeFolderName(cwd)
    IN  (rpc = "detected" /\ store[expected].exists
                          /\ store[expected].readable
                          /\ Len(store[expected].sessions) >= 1)
        => /\ detected.found
           /\ detected.path = expected
           /\ detected.matchType = "exact-path"
           /\ detected.sessionCount = Len(store[expected].sessions)
           /\ Len(detected.sessions) = Len(store[expected].sessions)
           /\ Range(detected.sessions) = Range(store[expected].sessions)

\* /a/b with -a-b holding 2 sessions and a more recently modified directory
\* that matches by name
C4_Witness ==
    /\ rpc = "detected"
    /\ cwd = <<"/", "a", "/", "b">>
    /\ Len(store[<<"-", "a", "-", "b">>].sessions) = 2
    /\ detected.matchType = "exact-path" /\ detected.sessionCount = 2
    /\ \E d \in DirNames :
          /\ d # <<"-", "a", "-", "b">>
          /\ isProjectNameMatch(d, basename(cwd))
          /\ \E i \in 1..Len(store[d].sessions) :
                store[d].sessions[i].lastModified > detected.lastModified

\* C5: every batch handed to the analyzer holds at least one message.
C5_NoEmptyBatchHanded ==
    \A i \in 1..Len(handed) : Len(handed[i]) >= 1

\* C6: every message costlier than the ceiling sits alone in a batch of its
\* own and every batch of two or more messages sums to at most the ceiling,
\* for the batches of processBatches and the chunks of
\* createTokenAwareChunks.
PlanRespectsCeiling(msgs, C, plan) ==
    /\ \A m \in 1..Len(msgs) :
          estimateTokens(msgs[m]) > C
              => \E b \in 1..Len(plan) : plan[b] = <<m>>
    /\ \A b \in 1..Len(plan) :
          Len(plan[b]) >= 2
              => SeqSum([k \in 1..Len(plan[b]) |->
                            estimateTokens(msgs[plan[b][k]])]) <= C
C6_OversizedAloneBudgetKept ==
    pc = "returned" =>
        /\ PlanRespectsCeiling(messages, batchSize, handed)
        /\ PlanRespectsCeiling(messages, batchSize,
                               createTokenAwareChunks(messages, batchSize))

\* C7: each merged scalar profile field is the value of the earliest batch
\* in which the field is not "unknown", and "unknown" only if every batch
\* says "unknown".
FirstKnown(values) ==
    IF \A i \in 1..Len(values) : values[i] = "unknown" THEN "unknown"
    ELSE values[CHOOSE i \in 1..Len(values) :
                   /\ values[i] # "unknown"
                   /\ \A j \in 1..(i - 1) : values[j] = "unknown"]
C7_FirstKnownScalarWins ==
    (mpc = "merged" /\ Len(results) >= 1) =>
        /\ merged.userProfile.environment.os =
             FirstKnown([i \in 1..Len(results) |->
                            results[i].userProfile.environment.os])
        /\ merged.userProfile.style.verbosity =
             FirstKnown([i \in 1..Len(results) |->
                            results[i].userProfile.style.verbosity])
        /\ merged.userProfile.style.techLevel =
             FirstKnown([i \in 1..Len(results) |->
                            results[i].userProfile.style.techLevel])
        /\ merged.userProfile.style.patience =
             FirstKnown([i \in 1..Len(results) |->
                            results[i].userProfile.style.patience])

\* C8: each merged list profile field has no repeated string, holds every
\* string of that field of any batch, and is in order of first appearance.
FirstIndex(xs, x) ==
    CHOOSE i \in 1..Len(xs) : xs[i] = x /\ \A j \in 1..(i - 1) : xs[j] # x
DedupedInOrder(field, all) ==
    /\ \A i, j \in 1..Len(field) : i # j => field[i] # field[j]
    /\ Range(field) = Range(all)
    /\ \A i, j \in 1..Len(field) :
          i < j => FirstIndex(all, field[i]) < FirstIndex(all, field[j])
C8_ListFieldsDeduplicated ==
    (mpc = "merged" /\ Len(results) >= 1) =>
        /\ DedupedInOrder(merged.userProfile.boundaries,
                          concatBoundaries(results))
        /\ DedupedInOrder(merged.userProfile.preferences,
                          concatPreferences(results))
        /\ DedupedInOrder(merged.userProfile.environment.restrictions,
                          concatRestrictions(results))
        /\ DedupedInOrder(merged.userProfile.environment.tools,
                          concatTools(results))

\* C9: the guard never deletes a session file written by the user's own
\* sessions, in the pre-run scan or in the post-run cleanup.
C9_UserSessionsSurvive ==
    \A r \in examined : r.origin = "user" => ~r.deleted

\* C10: the resolver honours exact-path, then project-name, then
\* partial-path: no partial match while a candidate with sessions matches by
\* name, no name or partial match while an exact candidate with sessions
\* exists.
HasSessions(d) ==
    store[d].exists /\ store[d].readable /\ Len(store[d].sessions) >= 1
NameCandidates ==
    {d \in DirNames : HasSessions(d) /\ isProjectNameMatch(d, basename(cwd))}
ExactCandidates ==
    {d \in DirNames : HasSessions(d) /\ isExactPathMatch(d, cwd)}
NoLooserMatchWhileExact ==
    (detected.found /\ detected.matchType \in {"project-name", "partial-path"})
        => ExactCandidates = {}
C10_PriorityOrderHonoured ==
    rpc = "detected" =>
        /\ NoLooserMatchWhileExact
        /\ detected.matchType = "partial-path" => NameCandidates = {}

\* C10 as the code has it: exact first; among the looser matches the most
\* recently modified, so a partial match is returned only when no candidate
\* matching by name was modified later.
LastModifiedOf(d) ==
    SeqMax([i \in 1..Len(store[d].sessions) |->
               store[d].sessions[i].lastModified])
C10_ExactFirstThenMostRecent ==
    rpc = "detected" =>
        /\ NoLooserMatchWhileExact
        /\ detected.matchType = "partial-path" =>
              \A d \in NameCandidates :
                  LastModifiedOf(d) <= detected.lastModified

\* a partial-path match returned although an older directory matches by name
C10_Witness ==
    /\ rpc = "detected"
    /\ detected.matchType = "partial-path"
    /\ NameCandidates # {}

\* C11: every project the resolver returns, whatever its match type, and
\* every project discoverProjects lists has at least one session and a
\* sessionCount equal to the length of its session list; a directory with
\* no session file is never returned.
WellPopulated(project) ==
    /\ Len(project.sessions) >= 1
    /\ project.sessionCount = Len(project.sessions)
    /\ Len(store[project.path].sessions) >= 1
C11_NoEmptyProjectReturned ==
    /\ (rpc = "detected" /\ detected.found) => WellPopulated(detected)
    /\ rpc = "discovered" =>
          \A i \in 1..Len(discovered) : WellPopulated(discovered[i])

\* the resolver passed over the empty directory named by the encoding of
\* the working directory and returned a looser match that has a session
C11_Witness ==
    /\ rpc = "detected"
    /\ store[pathToClaudeFolderName(cwd)].exists
    /\ Len(store[pathToClaudeFolderName(cwd)].sessions) = 0
    /\ detected.found
    /\ detected.matchType \in {"project-name", "partial-path"}

\* C17: the resolver never raises; when the projects root is missing or
\* cannot be listed, or a candidate directory cannot be listed, it returns
\* the no-project result.
Candidates ==
    {d \in DirNames :
        /\ store[d].exists
        /\ \/ d = pathToClaudeFolderName(cwd)
           \/ matchTypeOf(d, cwd, basename(cwd)) # "none"}
C17_UnreadableGivesNoProject ==
    (/\ rpc = "detected"
     /\ \/ root \in {"missing", "unlistable"}
        \/ \E d \in Candidates : ~store[d].readable)
        => ~detected.found

\* C17 as the code has it: a missing root gives no project; a candidate
\* that cannot be listed counts as empty and is never returned; no project
\* is returned when no listable candidate holds a session; a root that
\* cannot be listed leaves only the direct lookup of the encoded directory.
C17_UnlistableCountsAsEmpty ==
    rpc = "detected" =>
        /\ root = "missing" => ~detected.found
        /\ detected.found => store[detected.path].readable
        /\ (\A d \in Candidates : ~HasSessions(d)) => ~detected.found
        /\ (root = "unlistable" /\ detected.found) =>
              /\ detected.path = pathToClaudeFolderName(cwd)
              /\ detected.matchType = "exact-path"

\* the only candidate holds a session file and cannot be listed: no project
C17_Witness ==
    /\ rpc = "detected"
    /\ root = "ok"
    /\ \E d \in Candidates :
          ~store[d].readable /\ Len(store[d].sessions) >= 1
    /\ ~detected.found

\* C14: parseSessionFile returns exactly the records of the well-formed
\* lines, ascending by timestamp with equal timestamps in file order; a
\* malformed or blank line is skipped without aborting the parse or losing
\* another line's record; a second parse of the unchanged file returns the
\* same sequence.
RecordLines(ls) == {i \in 1..Len(ls) : ls[i].kind \in {"object", "null"}}
Chronological(ms) ==
    \A i, j \in 1..Len(ms) :
        (i < j /\ ms[i].timestamp # NaN /\ ms[j].timestamp # NaN) =>
            \/ ms[i].timestamp < ms[j].timestamp
            \/ ms[i].timestamp = ms[j].timestamp /\ ms[i].line < ms[j].line
C14_ParseKeepsRecordsInOrder ==
    /\ ppc \in {"parsed", "reparsed"} =>
          /\ {parsed[i].line : i \in 1..Len(parsed)} = RecordLines(lines)
          /\ Len(parsed) = Cardinality(RecordLines(lines))
          /\ Chronological(parsed)
    /\ ppc = "reparsed" => reparsed = parsed

\* C18: for every absolute path with no hyphen in any segment, the naive
\* decode of its folder name (every hyphen a separator) is the path, and
\* the exact-path test accepts the folder name for the path.
HyphenCount(s) == Cardinality({i \in 1..Len(s) : s[i] = "-"})
PathSegments(p) == FilterNonEmpty(Split(p, "/"))
C18_NaiveDecodeRoundTrip ==
    (cpc = "matched" /\ HyphenCount(path) = 0) =>
        /\ decoded.naive = path
        /\ decoded.accepted

\* C18 as the code has it: the naive decode always returns the path; the
\* exact-path test accepts unless the path is the root, whose only slash
\* the test strips before comparing.
C18_NaiveDecodeAcceptedBelowRoot ==
    (cpc = "matched" /\ HyphenCount(path) = 0) =>
        /\ decoded.naive = path
        /\ decoded.accepted <=> Len(PathSegments(path)) >= 1

\* a two-segment path without hyphens, accepted
C18_Witness ==
    /\ cpc = "matched"
    /\ HyphenCount(path) = 0
    /\ Len(PathSegments(path)) = 2
    /\ folder = <<"-">> \o ReplaceAll(Tail(path), "/", "-")
    /\ decoded.accepted

\* C19: for every absolute path of depth 1 or more whose final segment holds
\* exactly one hyphen, the last-2-segments decode of its folder name is the
\* path, and the exact-path test accepts the folder name for the path.
FinalSegment(p) == PathSegments(p)[Len(PathSegments(p))]
C19_LastTwoDecodeRoundTrip ==
    (/\ cpc = "matched"
     /\ Len(PathSegments(path)) >= 1
     /\ HyphenCount(FinalSegment(path)) = 1)
        => /\ decoded.segments >= 2
           /\ decoded.lastTwo = path
           /\ decoded.accepted

\* C12: the merged mistake, success and recommendation lists each have as
\* many entries as the per-batch lists have together, and hold every entry
\* of every batch.
AllMistakes == Flatten([i \in 1..Len(results) |-> results[i].mistakes])
AllSuccesses == Flatten([i \in 1..Len(results) |-> results[i].successes])
AllRecommendations ==
    Flatten([i \in 1..Len(results) |-> results[i].recommendations])
C12_ListsConcatenatedUncapped ==
    (mpc = "merged" /\ Len(results) >= 1) =>
        /\ Len(merged.mistakes) = Len(AllMistakes)
        /\ Range(merged.mistakes) = Range(AllMistakes)
        /\ Len(merged.successes) = Len(AllSuccesses)
        /\ Range(merged.successes) = Range(AllSuccesses)
        /\ Len(merged.recommendations) = Len(AllRecommendations)
        /\ Range(merged.recommendations) = Range(AllRecommendations)

\* C12 as the code has it: mistakes and successes are kept entry for entry;
\* the recommendations of two or more results are collapsed to one entry
\* per distinct string, none missing.
Count(xs, x) == Cardinality({i \in 1..Len(xs) : xs[i] = x})
SameEntries(xs, ys) ==
    /\ Len(xs) = Len(ys)
    /\ \A x \in Range(xs) \cup Range(ys) : Count(xs, x) = Count(ys, x)
C12_FindingsKeptRecommendationsDistinct ==
    (mpc = "merged" /\ Len(results) >= 1) =>
        /\ SameEntries(merged.mistakes, AllMistakes)
        /\ SameEntries(merged.successes, AllSuccesses)
        /\ Range(merged.recommendations) = Range(AllRecommendations)
        /\ Len(merged.recommendations) =
               IF Len(results) = 1 THEN Len(AllRecommendations)
               ELSE Cardinality(Range(AllRecommendations))

\* two results of two findings each, sharing a recommendation
C12_Witness ==
    /\ mpc = "merged"
    /\ Len(results) = 2
    /\ Len(merged.mistakes) = 4
    /\ Len(AllRecommendations) = 4
    /\ Len(merged.recommendations) < 4

\* C13: in the merged result of one or more per-batch results the mistakes
\* and the successes are in order of non-increasing lesson length.
LongestLessonFirst(xs) ==
    \A i, j \in 1..Len(xs) :
        i < j => LessonLength(xs[i]) >= LessonLength(xs[j])
C13_SortedByLessonLength ==
    (mpc = "merged" /\ Len(results) >= 1) =>
        /\ LongestLessonFirst(merged.mistakes)
        /\ LongestLessonFirst(merged.successes)

\* C15: in every run that issues external calls the guard's pre-run scan
\* is done before the first call is issued and the guard's post-run cleanup
\* runs after the last call has come back.
CallsOf(log) == {i \in 1..Len(log) : log[i].op = "call"}
CompletionsOf(log) == {i \in 1..Len(log) : log[i].op \in {"return", "throw"}}
GuardBrackets(log) ==
    /\ \E i \in 1..Len(log) :
          /\ log[i].op = "cleanupExistingPollution"
          /\ \A c \in CallsOf(log) : i < c
    /\ \E j \in 1..Len(log) :
          /\ log[j].op = "cleanup"
          /\ \A d \in CompletionsOf(log) : d < j
C15_GuardBracketsRun ==
    (pc \in {"returned", "threw"} /\ CallsOf(runLog) # {})
        => GuardBrackets(runLog)

\* C16: the external calls of a run are issued one at a time in batch
\* order: a call starts only after the one before it has returned or
\* failed, and no batch is sent twice.
IsCallEvent(e) == e.op \in {"call", "return", "throw"}
OneAtATime(log) ==
    LET calls == SelectSeq(log, IsCallEvent)
    IN  /\ \A i \in 1..Len(calls) :
              IF i % 2 = 1 THEN calls[i].op = "call"
              ELSE /\ calls[i].op \in {"return", "throw"}
                   /\ calls[i].n = calls[i - 1].n
        /\ \A i, j \in 1..Len(calls) :
              (i < j /\ calls[i].op = "call" /\ calls[j].op = "call")
                  => calls[i].n < calls[j].n
C16_CallsSequentialNoRetry ==
    /\ OneAtATime(runLog)
    /\ OneAtATime(apiLog)
    /\ pc = "awaiting" => Len(handed) = Cardinality(CallsOf(runLog))

\* a failed call followed by the call for the next chunk, and the run done
C16_Witness ==
    /\ apc = "returned"
    /\ \E i, j \in 1..Len(apiLog) :
          /\ i < j
          /\ apiLog[i].op = "throw"
          /\ apiLog[j].op = "call"
          /\ apiLog[j].n = apiLog[i].n + 1

\* C20: a session file written during an external call, modified after the
\* call's start time and present once the call has completed, is in the
\* tracked set when the post-run cleanup runs.
C20_CreatedSessionTracked ==
    [][(cleanup /\ beforeQueryTime # NoCall /\ ~inFlight) =>
          \A id \in SessionIds :
              (/\ files[id].exists
               /\ files[id].origin = "memaris"
               /\ files[id].mtime > beforeQueryTime)
                  => id \in createdSessions]_vars

\* C21: every session file a call of the run caused to be created is gone
\* once the post-run cleanup() has run, whatever the order of the timer, the
\* write of the file, the return of the call and other writes; and the
\* timer adds no id to the tracked set after that cleanup().
C21_CreatedSessionsDeleted ==
    [][/\ (cleanup /\ lastOp = "returned") =>
              \A id \in SessionIds :
                  ~(files'[id].exists /\ files'[id].origin = "memaris")
       /\ (PollTimer /\ lastOp = "cleanup" /\ ~inFlight) =>
              createdSessions' = createdSessions]_vars

DelayBetweenCalls(log) ==
    \A i, j \in 1..Len(log) :
        (i < j /\ log[i].op = "call" /\ log[j].op = "call")
            => \E k \in (i + 1)..(j - 1) : log[k].op = "delay"
C23_DelayBetweenCalls ==
    DelayBetweenCalls(runLog) /\ DelayBetweenCalls(apiLog)

\* C24: the batches handed to the analyzer are in chronological order:
\* message timestamps never decrease within a batch nor from one batch to
\* the next, also when the messages come from several session files.
NonDecreasing(ms) ==
    \A i, j \in 1..Len(ms) : i < j => ms[i].timestamp <= ms[j].timestamp
C24_BatchesChronological ==
    kpc = "batched" => NonDecreasing(Flatten(historyBatches))

\* the value a parsed response holds for a profile or list field
FieldOf(r, f) ==
    IF f = "os" THEN environmentField(r, f)
    ELSE IF f \in {"restrictions", "tools"} THEN environmentField(r, f)
    ELSE IF f \in {"verbosity", "techLevel", "patience"} THEN styleField(r, f)
    ELSE IF f \in {"boundaries", "preferences"} THEN profileField(r, f)
    ELSE r[f]
Answered == npc \in {"returned", "repaired"}

\* C25: when the response parses and holds no string for a string profile
\* field (OS, verbosity, tech level, patience), the result carries
\* "unknown" for that field.
C25_MissingScalarIsUnknown ==
    Answered =>
        \A f \in ScalarFields :
            FieldOf(parsedResult, f).t # "string"
                => analysisResult[f] = Str("unknown")

\* C26: when the response parses and a list field is missing or is the
\* literal string "unknown", the result holds the empty list for that field
\* and analyzeConversation does not throw.
C26_MissingListIsEmpty ==
    (responseText \in {"json", "repairable"} /\ npc # "response") =>
        /\ Answered
        /\ \A f \in ListFields :
               FieldOf(parsedResult, f) \in {Undefined, Str("unknown")}
                   => analysisResult[f] = Arr(<<>>)

\* a response answered with "unknown" for the boundaries and without
\* recommendations, while its tools came through
C26_Witness ==
    /\ npc = "returned"
    /\ FieldOf(parsedResult, "boundaries") = Str("unknown")
    /\ FieldOf(parsedResult, "recommendations") = Undefined
    /\ analysisResult.boundaries = Arr(<<>>)
    /\ analysisResult.recommendations = Arr(<<>>)
    /\ analysisResult.tools = Arr(<<"git">>)

\* C27: when neither the direct lookup nor any listed directory gives an
\* exact-path match, the resolver returns the candidate with sessions,
\* matching by name or by partial path, whose latest session was modified
\* last; the only candidate when there is one; no project when there is
\* none.  The candidates are the directories the listing of the projects
\* root yields.
LooseCandidates ==
    {d \in DirNames :
        /\ root = "ok"
        /\ HasSessions(d)
        /\ \/ isProjectNameMatch(d, basename(cwd))
           \/ isPartialPathMatch(d, cwd)}
NoExactMatch ==
    /\ ExactCandidates = {}
    /\ ~HasSessions(pathToClaudeFolderName(cwd))
C27_MostRecentLooseMatch ==
    (rpc = "detected" /\ NoExactMatch) =>
        IF LooseCandidates = {} THEN ~detected.found
        ELSE /\ detected.found
             /\ detected.path \in LooseCandidates
             /\ detected.lastModified = LastModifiedOf(detected.path)
             /\ \A d \in LooseCandidates :
                    LastModifiedOf(d) <= detected.lastModified

\* two candidates with sessions, neither an exact match, the later one
\* returned
C27_Witness ==
    /\ rpc = "detected"
    /\ NoExactMatch
    /\ detected.found
    /\ \E d \in LooseCandidates :
          LastModifiedOf(d) < detected.lastModified

\* C28: the batches processBatches forms are the chunks
\* createTokenAwareChunks returns for the same messages and ceiling: the
\* same partition, with the same number of parts.
C28_BatchesEqualChunks ==
    pc = "returned" => handed = createTokenAwareChunks(messages, batchSize)

\* C29: processBatches ends with a merged result built of at least one
\* batch result for every input, the empty message list and messages
\* without any token included: it fails only when an analysis call failed.
C29_AlwaysMergedResult ==
    /\ pc = "threw" => failedBatches # {}
    /\ pc = "returned" => Len(batchResults) >= 1

\* C30: merging two per-batch results in either order gives the same set
\* of strings in each deduplicated list field (boundaries, preferences,
\* restrictions, tools).
C30_DedupOrderIndependent ==
    (mpc = "swapped" /\ Len(results) >= 2) =>
        /\ Range(merged.userProfile.boundaries) =
               Range(mergedReversed.userProfile.boundaries)
        /\ Range(merged.userProfile.preferences) =
               Range(mergedReversed.userProfile.preferences)
        /\ Range(merged.userProfile.environment.restrictions) =
               Range(mergedReversed.userProfile.environment.restrictions)
        /\ Range(merged.userProfile.environment.tools) =
               Range(mergedReversed.userProfile.environment.tools)

\* two results with different boundaries: the two merges list the same
\* strings in a different order
C30_Witness ==
    /\ mpc = "swapped"
    /\ Len(results) = 2
    /\ results[1].userProfile.boundaries # results[2].userProfile.boundaries
    /\ merged.userProfile.boundaries # mergedReversed.userProfile.boundaries
    /\ Len(merged.userProfile.boundaries) >= 2
====
